---- MODULE Spec2Model ----
(***************************************************************************)
(* State-machine model of src/main.py: the in-memory generation_status     *)
(* store, the HTTP handlers that read and write it, and the background     *)
(* task process_video_generation with its provider adapters and the mock.  *)
(*                                                                         *)
(* Strings the code inspects (prompts, keywords) are sequences of          *)
(* one-character strings, so strip(), lower() and the `in` substring test  *)
(* are computed.  A task's position is the await it is suspended at: every *)
(* `await` and every entry or exit of an `async with` block is a point     *)
(* where the event loop may run another task or handler.                   *)
(***************************************************************************)
EXTENDS Integers, Sequences, FiniteSets, TLC

VARIABLES
    keys,               \* the configured credentials (main.py:43-45), fixed at import
    generation_status,  \* main.py:50, generation id -> record
    tasks,              \* generation id -> the background task's position and locals,
                        \* and what the provider of the current attempt has reported
    now,                \* what time.time() returns
    issued,             \* history: every id generate_video has returned
    reaped,             \* history: every id DELETE /cleanup has removed
    response            \* the HTTP response the latest step sent, if it was a handler

vars == <<keys, generation_status, tasks, now, issued, reaped, response>>

----------------------------------------------------------------------------
(* Bounds of the model *)

MaxGenerations == 2     \* generations accepted in one behaviour
MaxDays == 2            \* cutoff periods the clock advances
MaxStalls == 0          \* non-final poll answers per provider attempt, in Spec
MaxFragments == 2       \* prompt fragments concatenated, in SpecMock

(* Program constants *)

MAX_PROMPT_LENGTH == 500
LumaPolls == 30
ReplicatePolls == 20
MinVideoBytes == 1000
CutoffAge == 24 * 60 * 60
MinDuration == 5
DefaultDuration == 7
MaxDuration == 10

----------------------------------------------------------------------------
(* Python values *)

None == "<None>"

Truthy(v) == v # None /\ v # ""

----------------------------------------------------------------------------
(* str.strip(), str.lower(), str.upper() and `word in text` *)

Whitespace == {" ", "\t", "\n"}

LowerLetters ==
    <<"a", "b", "c", "d", "e", "f", "g", "h", "i", "j", "k", "l", "m",
      "n", "o", "p", "q", "r", "s", "t", "u", "v", "w", "x", "y", "z">>

UpperLetters ==
    <<"A", "B", "C", "D", "E", "F", "G", "H", "I", "J", "K", "L", "M",
      "N", "O", "P", "Q", "R", "S", "T", "U", "V", "W", "X", "Y", "Z">>

\* The character U+017F (LATIN SMALL LETTER LONG S): str.lower() keeps it,
\* str.upper() turns it into "S".
LongS == "U+017F"

lowerChar(c) ==
    IF \E i \in 1..26 : UpperLetters[i] = c
    THEN LowerLetters[CHOOSE i \in 1..26 : UpperLetters[i] = c]
    ELSE c

upperChar(c) ==
    IF \E i \in 1..26 : LowerLetters[i] = c
    THEN UpperLetters[CHOOSE i \in 1..26 : LowerLetters[i] = c]
    ELSE IF c = LongS THEN "S"
    ELSE c

\* prompt_lower = prompt_data.prompt without the .lower() call
lower_Identity(s) == s

lower(s) == [i \in 1..Len(s) |-> lowerChar(s[i])]

upper(s) == [i \in 1..Len(s) |-> upperChar(s[i])]

RECURSIVE lstrip(_)
lstrip(s) ==
    IF s # <<>> /\ Head(s) \in Whitespace THEN lstrip(Tail(s)) ELSE s

RECURSIVE rstrip(_)
rstrip(s) ==
    IF s # <<>> /\ s[Len(s)] \in Whitespace
    THEN rstrip(SubSeq(s, 1, Len(s) - 1))
    ELSE s

\* `if not prompt_data.prompt:` without the .strip() call
strip_None(s) == s

strip(s) == rstrip(lstrip(s))

\* `word in text` on str: substring test
Contains(text, word) ==
    \E i \in 0..(Len(text) - Len(word)) :
        SubSeq(text, i + 1, i + Len(word)) = word

----------------------------------------------------------------------------
(* generate_enhanced_mock_video: the keyword rule, main.py:384-396 *)

CatWords == {<<"c", "a", "t">>, <<"k", "i", "t", "t", "e", "n">>, <<"p", "e", "t">>}

OceanWords ==
    {<<"o", "c", "e", "a", "n">>, <<"w", "a", "v", "e">>,
     <<"w", "a", "t", "e", "r">>, <<"s", "e", "a">>}

NatureWords ==
    {<<"n", "a", "t", "u", "r", "e">>, <<"f", "o", "r", "e", "s", "t">>,
     <<"t", "r", "e", "e">>, <<"l", "a", "n", "d", "s", "c", "a", "p", "e">>}

CityWords ==
    {<<"c", "i", "t", "y">>, <<"u", "r", "b", "a", "n">>,
     <<"b", "u", "i", "l", "d", "i", "n", "g">>, <<"s", "t", "r", "e", "e", "t">>}

CatUrl == "https://sample-videos.com/zip/10/mp4/480/SampleVideo_480x270_1mb.mp4"
OceanUrl == "https://www.learningcontainer.com/wp-content/uploads/2020/05/sample-mp4-file.mp4"
NatureUrl == "https://commondatastorage.googleapis.com/gtv-videos-bucket/sample/ForBiggerEscapes.mp4"
CityUrl == "https://commondatastorage.googleapis.com/gtv-videos-bucket/sample/ForBiggerJoyrides.mp4"
DefaultUrl == "https://commondatastorage.googleapis.com/gtv-videos-bucket/sample/BigBuckBunny.mp4"

\* all(...) in place of any(...)
AnyWordIn_All(words, text) == \A word \in words : Contains(text, word)

\* any(word in prompt_lower for word in words)
AnyWordIn(words, text) == \E word \in words : Contains(text, word)

\* The city branch tested before the nature branch
MockVideoUrl_CityFirst(prompt) ==
    LET prompt_lower == lower(prompt) IN
    IF AnyWordIn(CatWords, prompt_lower) THEN CatUrl
    ELSE IF AnyWordIn(OceanWords, prompt_lower) THEN OceanUrl
    ELSE IF AnyWordIn(CityWords, prompt_lower) THEN CityUrl
    ELSE IF AnyWordIn(NatureWords, prompt_lower) THEN NatureUrl
    ELSE DefaultUrl

MockVideoUrl(prompt) ==
    LET prompt_lower == lower(prompt) IN
    IF AnyWordIn(CatWords, prompt_lower) THEN CatUrl
    ELSE IF AnyWordIn(OceanWords, prompt_lower) THEN OceanUrl
    ELSE IF AnyWordIn(NatureWords, prompt_lower) THEN NatureUrl
    ELSE IF AnyWordIn(CityWords, prompt_lower) THEN CityUrl
    ELSE DefaultUrl

----------------------------------------------------------------------------
(* Inputs *)

Providers == {"luma", "replicate", "huggingface"}

\* Prompts of POST /generate-video in Spec and SpecChain: "", " \t", "cat"
Prompts == {<<>>, <<" ", "\t">>, <<"c", "a", "t">>}

\* Prompts in SpecNoKeys: "Sea", "z"
NoKeysPrompts == {<<"S", "e", "a">>, <<"z">>}

\* duration: below the range, the default, above the range
Durations == {MinDuration - 1, DefaultDuration, MaxDuration + 1}

\* Pieces of prompts in SpecMock: every keyword, some in several letter cases
\* ("street" holds "tree", a keyword of another category), and fillers
Fragments ==
    {<<"c", "a", "t">>, <<"C", "a", "T">>, <<"o", "c", "e", "a", "n">>,
     <<"O", "C", "E", "A", "N">>, <<"f", "o", "r", "e", "s", "t">>,
     <<"c", "i", "t", "y">>, <<"C", "i", "t", "y">>,
     <<"s", "t", "r", "e", "e", "t">>, <<LongS, "e", "a">>,
     <<"a", " ", "s", "t", "o", "r", "y", " ">>, <<"z">>, <<" ">>,
     <<"k", "i", "t", "t", "e", "n">>, <<"P", "e", "t">>, <<"w", "a", "v", "e">>,
     <<"W", "A", "T", "E", "R">>, <<"s", "e", "a">>, <<"n", "a", "t", "u", "r", "e">>,
     <<"T", "r", "e", "e">>, <<"l", "a", "n", "d", "s", "c", "a", "p", "e">>,
     <<"u", "r", "b", "a", "n">>, <<"B", "u", "i", "l", "d", "i", "n", "g">>}

RECURSIVE Concatenations(_)
Concatenations(n) ==
    IF n = 0 THEN {<<>>}
    ELSE LET shorter == Concatenations(n - 1) IN
         shorter \cup {f \o r : f \in Fragments, r \in shorter}

\* Prompts in SpecMock
MockPrompts == Concatenations(MaxFragments)

\* The ids generate_video can issue in one behaviour
TaskIds == 1..MaxGenerations

\* Path parameters of GET /status/{generation_id}: one more than is ever issued
GenerationIds == 1..(MaxGenerations + 1)

\* URLs the providers report
LumaUrls == {"https://luma.example/video.mp4"}
ReplicateUrls == {"https://replicate.example/out.mp4"}
HuggingFaceUrl == "https://huggingface.co/generated-video-placeholder.mp4"

\* The instants at which the clock is read: whole cutoff periods after start
Times == {d * CutoffAge : d \in 0..MaxDays}

NoResponse == [op |-> "none"]

----------------------------------------------------------------------------
(* The store *)

Has(gs, id) == id \in DOMAIN gs

NewRecord(prompt, t) ==
    [status |-> "queued", progress |-> 0, created_at |-> t, prompt |-> prompt,
     video_url |-> None, error |-> None, completed_at |-> <<>>]

\* The progress write that also stamps the record with the current time
SetProgress_Touch(gs, id, p) ==
    [gs EXCEPT ![id] = [@ EXCEPT !.progress = p, !.created_at = now]]

\* The progress write replaced by a write of a fresh record state
SetProgress_Reset(gs, id, p) ==
    [gs EXCEPT ![id] = [@ EXCEPT !.progress = p, !.status = "queued"]]

\* The progress write applied to every record instead of the task's own
SetProgress_All(gs, id, p) == [j \in DOMAIN gs |-> [gs[j] EXCEPT !.progress = p]]

\* generation_status[id]["progress"] = p, on a store that holds id
SetProgress(gs, id, p) == [gs EXCEPT ![id].progress = p]

Terminal(rec) == rec.status \in {"completed", "failed"}

Init ==
    /\ keys \in SUBSET Providers
    /\ generation_status = <<>>
    /\ tasks = <<>>
    /\ now = 0
    /\ issued = {}
    /\ reaped = {}
    /\ response = NoResponse

----------------------------------------------------------------------------
(* HTTP handlers.  Each runs without awaiting, so each is one step. *)

\* VideoPrompt, main.py:52-55: what pydantic accepts
ValidBody(prompt, duration) ==
    /\ Len(prompt) >= 1
    /\ Len(prompt) <= MAX_PROMPT_LENGTH
    /\ duration >= MinDuration
    /\ duration <= MaxDuration

\* An id generator that can return an id it has returned before
NewGenerationId_Reused ==
    IF issued = {} THEN Cardinality(issued) + 1 ELSE CHOOSE id \in issued : TRUE

\* str(uuid.uuid4()), main.py:96: a token no earlier call has returned
NewGenerationId == Cardinality(issued) + 1

\* POST /generate-video.  request_prompt is not part of the body sent: it
\* records which request the response answers.
generate_video(prompt, duration) ==
    /\ UNCHANGED <<keys, now, reaped>>
    /\ IF ~ValidBody(prompt, duration)
       THEN /\ response' = [op |-> "generate", code |-> 422, request_prompt |-> prompt]
            /\ UNCHANGED <<generation_status, tasks, issued>>
       ELSE IF strip(prompt) = <<>>
       THEN /\ response' = [op |-> "generate", code |-> 400, request_prompt |-> prompt]
            /\ UNCHANGED <<generation_status, tasks, issued>>
       ELSE LET generation_id == NewGenerationId IN
            /\ generation_status' =
                   [id \in DOMAIN generation_status \cup {generation_id} |->
                       IF id = generation_id THEN NewRecord(prompt, now)
                       ELSE generation_status[id]]
            /\ tasks' = (generation_id :>
                            [stage |-> "pending", pc |-> "start", polls |-> 0,
                             ret |-> None, prompt |-> prompt,
                             succeeded |-> FALSE, reported |-> None]) @@ tasks
            /\ issued' = issued \cup {generation_id}
            /\ response' = [op |-> "generate", code |-> 200, request_prompt |-> prompt,
                            status |-> "queued", generation_id |-> generation_id]

\* The lookup without the membership test: a missing id reads as an empty record
get_generation_status_NoCheck(generation_id) ==
    /\ UNCHANGED <<keys, generation_status, tasks, now, issued, reaped>>
    /\ LET status_data ==
               IF Has(generation_status, generation_id)
               THEN generation_status[generation_id]
               ELSE NewRecord(<<>>, now)
       IN  response' = [op |-> "status", generation_id |-> generation_id,
                        code |-> 200,
                        status |-> status_data.status,
                        progress |-> status_data.progress,
                        video_url |-> status_data.video_url,
                        error |-> status_data.error]

\* GET /status/{generation_id}
get_generation_status(generation_id) ==
    /\ UNCHANGED <<keys, generation_status, tasks, now, issued, reaped>>
    /\ IF ~Has(generation_status, generation_id)
       THEN response' = [op |-> "status", generation_id |-> generation_id,
                         code |-> 404]
       ELSE LET status_data == generation_status[generation_id] IN
            response' = [op |-> "status", generation_id |-> generation_id,
                         code |-> 200,
                         status |-> status_data.status,
                         progress |-> status_data.progress,
                         video_url |-> status_data.video_url,
                         error |-> status_data.error]

\* Only the processing records counted
IsActive_ProcessingOnly(g) == g.status = "processing"

\* main.py:419: g["status"] in ["queued", "processing"]
IsActive(g) == g.status \in {"queued", "processing"}

\* GET /health
health_check ==
    /\ UNCHANGED <<keys, generation_status, tasks, now, issued, reaped>>
    /\ response' =
           [op |-> "health", code |-> 200, timestamp |-> now,
            apis_available |-> keys,
            active_generations |->
                Cardinality({id \in DOMAIN generation_status :
                                IsActive(generation_status[id])})]

\* The comparison made with current_time in place of cutoff_time
Expired_NoCutoff(data, cutoff_time) == data.created_at < cutoff_time + CutoffAge

\* The comparison with <= in place of <
Expired_Inclusive(data, cutoff_time) == data.created_at <= cutoff_time

\* main.py:457: data.get("created_at", 0) < cutoff_time
Expired(data, cutoff_time) == data.created_at < cutoff_time

\* DELETE /cleanup
cleanup_old_generations ==
    LET current_time == now
        cutoff_time == current_time - CutoffAge
        to_delete == {gen_id \in DOMAIN generation_status :
                         Expired(generation_status[gen_id], cutoff_time)}
    IN  /\ generation_status' =
               [id \in DOMAIN generation_status \ to_delete |-> generation_status[id]]
        /\ reaped' = reaped \cup to_delete
        /\ response' = [op |-> "cleanup", code |-> 200,
                        cleaned |-> Cardinality(to_delete),
                        remaining |-> Cardinality(DOMAIN generation_status')]
        /\ UNCHANGED <<keys, tasks, now, issued>>

----------------------------------------------------------------------------
(* The clock *)

\* A task suspended at a sleep, or between coroutines, resumes within seconds.
\* A task suspended in client.post / client.get resumes when the peer answers
\* or a socket operation times out: timeout=30 bounds each socket operation,
\* not the call.
AtLocalAwait(t) ==
    /\ t.stage \notin {"done", "crashed"}
    /\ t.pc \notin {"post", "get"}

\* time.time() is CutoffAge later: no task can be at a local await meanwhile
Tick ==
    /\ now + CutoffAge \in Times
    /\ \A id \in DOMAIN tasks : ~AtLocalAwait(tasks[id])
    /\ now' = now + CutoffAge
    /\ response' = NoResponse
    /\ UNCHANGED <<keys, generation_status, tasks, issued, reaped>>

----------------------------------------------------------------------------
(* process_video_generation, main.py:131-173 *)

At(id, stage, pc) ==
    /\ id \in DOMAIN tasks
    /\ tasks[id].stage = stage
    /\ tasks[id].pc = pc

Goto(id, stage, pc, polls, ret) ==
    tasks' = [tasks EXCEPT ![id] =
                 [@ EXCEPT !.stage = stage, !.pc = pc, !.polls = polls, !.ret = ret]]

\* The adapter `stage` is entered: no answer of its provider has arrived yet
Enter(id, stage) ==
    tasks' = [tasks EXCEPT ![id] =
                 [@ EXCEPT !.stage = stage, !.pc = "enter", !.polls = 0, !.ret = None,
                           !.succeeded = FALSE, !.reported = None]]

\* Goto after an answer in which the provider reports the job done: url is
\* the video URL the answer carries, None when it carries none
Report(id, stage, pc, polls, ret, url) ==
    tasks' = [tasks EXCEPT ![id] =
                 [@ EXCEPT !.stage = stage, !.pc = pc, !.polls = polls, !.ret = ret,
                           !.succeeded = TRUE, !.reported = url]]

TaskFrame ==
    /\ response' = NoResponse
    /\ UNCHANGED <<keys, now, issued, reaped>>

\* The final update without its "progress": 100
Completed_KeepProgress(gs, id, video_url) ==
    [gs EXCEPT ![id] = [@ EXCEPT !.status = "completed",
                                 !.video_url = video_url, !.completed_at = <<now>>]]

\* main.py:161-166
Completed(gs, id, video_url) ==
    [gs EXCEPT ![id] = [@ EXCEPT !.status = "completed", !.progress = 100,
                                 !.video_url = video_url, !.completed_at = <<now>>]]

\* main.py:169-173
Failed(gs, id, e) ==
    [gs EXCEPT ![id] = [@ EXCEPT !.status = "failed", !.progress = 0, !.error = e]]

\* An exception e reaches `except Exception as e`, main.py:168: the handler
\* indexes the store again, and its KeyError leaves the task.
Except(id, gs, e) ==
    IF Has(gs, id)
    THEN /\ generation_status' = Failed(gs, id, e)
         /\ Goto(id, "done", "end", 0, None)
    ELSE /\ generation_status' = gs
         /\ Goto(id, "crashed", "end", 0, None)

\* The `not video_url` tests of main.py:149 and 153 left out
NextAdapter_NoStop(after, video_url) ==
    IF after = "start" /\ "luma" \in keys THEN "luma"
    ELSE IF after \in {"start", "luma"} /\ "replicate" \in keys THEN "replicate"
    ELSE IF after \in {"start", "luma", "replicate"} /\ "huggingface" \in keys
         THEN "huggingface"
    ELSE IF after # "mock" /\ ~Truthy(video_url) THEN "mock"
    ELSE "finish"

\* The adapter that main.py:145-158 awaits next, once the adapter `after` has
\* returned video_url ("start": none has run yet); "finish" when none is left.
NextAdapter(after, video_url) ==
    IF after = "start" /\ "luma" \in keys THEN "luma"
    ELSE IF Truthy(video_url) THEN "finish"
    ELSE IF after \in {"start", "luma"} /\ "replicate" \in keys THEN "replicate"
    ELSE IF after \in {"start", "luma", "replicate"} /\ "huggingface" \in keys
         THEN "huggingface"
    ELSE IF after # "mock" THEN "mock"
    ELSE "finish"

\* process_video_generation from the return of `after` to its next await or end
Resume(id, after, video_url, gs) ==
    LET next == NextAdapter(after, video_url) IN
    IF next # "finish"
    THEN /\ generation_status' = gs
         /\ Enter(id, next)
    ELSE IF Has(gs, id)
    THEN /\ generation_status' = Completed(gs, id, video_url)
         /\ Goto(id, "done", "end", 0, video_url)
    ELSE Except(id, gs, "KeyError")

\* main.py:134-146: the task starts
Dispatch(id) ==
    /\ At(id, "pending", "start")
    /\ TaskFrame
    /\ IF Has(generation_status, id)
       THEN Resume(id, "start", None,
                   [generation_status EXCEPT
                       ![id] = [@ EXCEPT !.status = "processing", !.progress = 10]])
       ELSE Except(id, generation_status, "KeyError")

----------------------------------------------------------------------------
(* generate_enhanced_mock_video, main.py:374-401 *)

\* main.py:377-378
Mock_Enter(id) ==
    /\ At(id, "mock", "enter")
    /\ TaskFrame
    /\ IF Has(generation_status, id)
       THEN /\ generation_status' = SetProgress(generation_status, id, 60)
            /\ Goto(id, "mock", "sleep1", 0, None)
       ELSE Except(id, generation_status, "KeyError")

\* main.py:380-381
Mock_Wake1(id) ==
    /\ At(id, "mock", "sleep1")
    /\ TaskFrame
    /\ IF Has(generation_status, id)
       THEN /\ generation_status' = SetProgress(generation_status, id, 80)
            /\ Goto(id, "mock", "sleep2", 0, None)
       ELSE Except(id, generation_status, "KeyError")

\* main.py:384-401, then main.py:160-166
Mock_Wake2(id) ==
    /\ At(id, "mock", "sleep2")
    /\ TaskFrame
    /\ Resume(id, "mock", MockVideoUrl(tasks[id].prompt), generation_status)

----------------------------------------------------------------------------
(* generate_with_luma_dream_machine, main.py:175-243 *)

\* main.py:178-185: the credential is set (the caller checked it); a KeyError
\* of the progress write is caught at main.py:240 and the adapter returns None
Luma_Enter(id) ==
    /\ At(id, "luma", "enter")
    /\ TaskFrame
    /\ IF Has(generation_status, id)
       THEN /\ generation_status' = SetProgress(generation_status, id, 25)
            /\ Goto(id, "luma", "client", 0, None)
       ELSE Resume(id, "luma", None, generation_status)

\* main.py:185-202: inside `async with`, up to the await of client.post
Luma_Open(id) ==
    /\ At(id, "luma", "client")
    /\ TaskFrame
    /\ IF Has(generation_status, id)
       THEN /\ generation_status' = SetProgress(generation_status, id, 50)
            /\ Goto(id, "luma", "post", 0, None)
       ELSE /\ UNCHANGED generation_status
            /\ Goto(id, "luma", "close", 0, None)

\* What the submission can come to: 201 with a JSON body, another status code,
\* or an exception (network error, timeout, a body that is not JSON)
LumaSubmitAnswers == {"created", "rejected", "error"}

\* main.py:202-217 and 237-238: client.post returns or raises
Luma_Submit(id) ==
    /\ At(id, "luma", "post")
    /\ TaskFrame
    /\ \E answer \in LumaSubmitAnswers :
        IF answer = "created" /\ Has(generation_status, id) /\ LumaPolls > 0
        THEN /\ generation_status' = SetProgress(generation_status, id, 75)
             /\ Goto(id, "luma", "sleep", 0, None)
        ELSE /\ generation_status' =
                    IF answer = "created" /\ Has(generation_status, id)
                    THEN SetProgress(generation_status, id, 75)
                    ELSE generation_status
             /\ Goto(id, "luma", "close", 0, None)

\* main.py:217: asyncio.sleep(10) returns
Luma_Sleep(id) ==
    /\ At(id, "luma", "sleep")
    /\ TaskFrame
    /\ UNCHANGED generation_status
    /\ Goto(id, "luma", "get", tasks[id].polls, None)

\* What a poll can come to: an exception; a status code other than 200; 200
\* with a state that is neither completed nor failed; completed with a video
\* URL; completed without one; failed
LumaPollAnswers ==
    {[kind |-> k, url |-> None] :
        k \in {"error", "not200", "pending", "completed_no_video", "failed"}}
    \cup {[kind |-> "completed", url |-> u] : u \in LumaUrls}

\* The answers after which the loop at main.py:216 goes round again
LumaStalling == {"not200", "pending", "completed_no_video"}

\* main.py:219-236: client.get returns or raises.  stalls bounds how many
\* answers of one attempt leave the loop running.
Luma_Poll(id, stalls) ==
    /\ At(id, "luma", "get")
    /\ TaskFrame
    /\ \E answer \in LumaPollAnswers :
        LET polls == tasks[id].polls
            reports == answer.kind \in {"completed", "completed_no_video"}
            gs == IF reports /\ Has(generation_status, id)
                  THEN SetProgress(generation_status, id, 90)
                  ELSE generation_status
        IN  /\ answer.kind \in LumaStalling => polls < stalls
            /\ generation_status' = gs
            /\ IF reports /\ ~Has(generation_status, id)
               THEN Goto(id, "luma", "close", 0, None)
               ELSE IF answer.kind = "completed"
               THEN Report(id, "luma", "close", 0, answer.url, answer.url)
               ELSE IF answer.kind \in LumaStalling /\ polls + 1 < LumaPolls
               THEN Goto(id, "luma", "sleep", polls + 1, None)
               ELSE Goto(id, "luma", "close", 0, None)

\* main.py:185, 243: the `async with` block is left, the adapter returns
Luma_Close(id) ==
    /\ At(id, "luma", "close")
    /\ TaskFrame
    /\ Resume(id, "luma", tasks[id].ret, generation_status)

----------------------------------------------------------------------------
(* generate_with_replicate, main.py:245-318 *)

\* main.py:248-255: the credential is set (the caller checked it); a KeyError
\* of the progress write is caught at main.py:315 and the adapter returns None
Replicate_Enter(id) ==
    /\ At(id, "replicate", "enter")
    /\ TaskFrame
    /\ IF Has(generation_status, id)
       THEN /\ generation_status' = SetProgress(generation_status, id, 35)
            /\ Goto(id, "replicate", "client", 0, None)
       ELSE Resume(id, "replicate", None, generation_status)

\* main.py:255-275: inside `async with`, up to the await of client.post
Replicate_Open(id) ==
    /\ At(id, "replicate", "client")
    /\ TaskFrame
    /\ IF Has(generation_status, id)
       THEN /\ generation_status' = SetProgress(generation_status, id, 55)
            /\ Goto(id, "replicate", "post", 0, None)
       ELSE /\ UNCHANGED generation_status
            /\ Goto(id, "replicate", "close", 0, None)

\* What the submission can come to: 201 with a JSON body, another status code,
\* or an exception (network error, timeout, a body that is not JSON)
ReplicateSubmitAnswers == {"created", "rejected", "error"}

\* main.py:275-290 and 312-313: client.post returns or raises
Replicate_Submit(id) ==
    /\ At(id, "replicate", "post")
    /\ TaskFrame
    /\ \E answer \in ReplicateSubmitAnswers :
        IF answer = "created" /\ Has(generation_status, id) /\ ReplicatePolls > 0
        THEN /\ generation_status' = SetProgress(generation_status, id, 75)
             /\ Goto(id, "replicate", "sleep", 0, None)
        ELSE /\ generation_status' =
                    IF answer = "created" /\ Has(generation_status, id)
                    THEN SetProgress(generation_status, id, 75)
                    ELSE generation_status
             /\ Goto(id, "replicate", "close", 0, None)

\* main.py:290: asyncio.sleep(10) returns
Replicate_Sleep(id) ==
    /\ At(id, "replicate", "sleep")
    /\ TaskFrame
    /\ UNCHANGED generation_status
    /\ Goto(id, "replicate", "get", tasks[id].polls, None)

\* What a poll can come to: an exception; a status code other than 200; 200
\* with a status that is neither succeeded nor failed; succeeded with a
\* non-empty output list, whose first element is a URL or is empty; succeeded
\* with no usable output; failed
ReplicatePollAnswers ==
    {[kind |-> k, url |-> None] :
        k \in {"error", "not200", "pending", "succeeded_no_output", "failed"}}
    \cup {[kind |-> "succeeded", url |-> u] : u \in ReplicateUrls \cup {""}}

\* The answers after which the loop at main.py:289 goes round again
ReplicateStalling == {"not200", "pending", "succeeded_no_output"}

\* main.py:292-310: client.get returns or raises.  stalls bounds how many
\* answers of one attempt leave the loop running.
Replicate_Poll(id, stalls) ==
    /\ At(id, "replicate", "get")
    /\ TaskFrame
    /\ \E answer \in ReplicatePollAnswers :
        LET polls == tasks[id].polls
            reports == answer.kind \in {"succeeded", "succeeded_no_output"}
            gs == IF reports /\ Has(generation_status, id)
                  THEN SetProgress(generation_status, id, 90)
                  ELSE generation_status
        IN  /\ answer.kind \in ReplicateStalling => polls < stalls
            /\ generation_status' = gs
            /\ IF reports /\ ~Has(generation_status, id)
               THEN Goto(id, "replicate", "close", 0, None)
               ELSE IF answer.kind = "succeeded"
               THEN Report(id, "replicate", "close", 0, answer.url, answer.url)
               ELSE IF answer.kind \in ReplicateStalling /\ polls + 1 < ReplicatePolls
               THEN Goto(id, "replicate", "sleep", polls + 1, None)
               ELSE Goto(id, "replicate", "close", 0, None)

\* main.py:255, 318: the `async with` block is left, the adapter returns
Replicate_Close(id) ==
    /\ At(id, "replicate", "close")
    /\ TaskFrame
    /\ Resume(id, "replicate", tasks[id].ret, generation_status)

----------------------------------------------------------------------------
(* generate_with_huggingface, main.py:320-372 *)

\* main.py:323-330
HuggingFace_Enter(id) ==
    /\ At(id, "huggingface", "enter")
    /\ TaskFrame
    /\ IF Has(generation_status, id)
       THEN /\ generation_status' = SetProgress(generation_status, id, 40)
            /\ Goto(id, "huggingface", "client", 0, None)
       ELSE Resume(id, "huggingface", None, generation_status)

\* main.py:330-349
HuggingFace_Open(id) ==
    /\ At(id, "huggingface", "client")
    /\ TaskFrame
    /\ IF Has(generation_status, id)
       THEN /\ generation_status' = SetProgress(generation_status, id, 65)
            /\ Goto(id, "huggingface", "post", 0, None)
       ELSE /\ UNCHANGED generation_status
            /\ Goto(id, "huggingface", "close", 0, None)

\* What the call can come to: an exception, a status code other than 200, or
\* 200 with a body of so many bytes
HuggingFaceAnswers ==
    {[kind |-> "error", bytes |-> 0], [kind |-> "rejected", bytes |-> 0],
     [kind |-> "ok", bytes |-> MinVideoBytes],
     [kind |-> "ok", bytes |-> MinVideoBytes + 1]}

\* main.py:349-367: client.post returns or raises
HuggingFace_Submit(id) ==
    /\ At(id, "huggingface", "post")
    /\ TaskFrame
    /\ \E answer \in HuggingFaceAnswers :
        IF answer.kind = "error" \/ ~Has(generation_status, id)
        THEN /\ UNCHANGED generation_status
             /\ Goto(id, "huggingface", "close", 0, None)
        ELSE /\ generation_status' = SetProgress(generation_status, id, 85)
             /\ IF answer.kind = "ok" /\ answer.bytes > MinVideoBytes
                THEN Report(id, "huggingface", "close", 0, HuggingFaceUrl, None)
                ELSE Goto(id, "huggingface", "close", 0, None)

\* main.py:330, 372: the `async with` block is left, the adapter returns
HuggingFace_Close(id) ==
    /\ At(id, "huggingface", "close")
    /\ TaskFrame
    /\ Resume(id, "huggingface", tasks[id].ret, generation_status)

---------------------------------------------------------------------------------------------------------------------------------------------------
(* Specifications *)

\* generate_video accepts the body: it creates a record and a task
Accepts(prompt, duration) == ValidBody(prompt, duration) /\ strip(prompt) # <<>>

\* The requests a client can send: prompts are drawn from `prompts`, and at
\* most `cap` of them are accepted in one behaviour
Request(prompts, cap) ==
    \/ \E prompt \in prompts, duration \in Durations :
        /\ Accepts(prompt, duration) => Cardinality(issued) < cap
        /\ generate_video(prompt, duration)
    \/ \E generation_id \in GenerationIds : get_generation_status(generation_id)
    \/ health_check
    \/ cleanup_old_generations

OrchestratorStep(id) == Dispatch(id)

LumaStep(id, stalls) ==
    \/ Luma_Enter(id) \/ Luma_Open(id) \/ Luma_Submit(id)
    \/ Luma_Sleep(id) \/ Luma_Poll(id, stalls) \/ Luma_Close(id)

ReplicateStep(id, stalls) ==
    \/ Replicate_Enter(id) \/ Replicate_Open(id) \/ Replicate_Submit(id)
    \/ Replicate_Sleep(id) \/ Replicate_Poll(id, stalls) \/ Replicate_Close(id)

HuggingFaceStep(id) ==
    \/ HuggingFace_Enter(id) \/ HuggingFace_Open(id)
    \/ HuggingFace_Submit(id) \/ HuggingFace_Close(id)

MockStep(id) == Mock_Enter(id) \/ Mock_Wake1(id) \/ Mock_Wake2(id)

\* One step of the background task of generation id
TaskStep(id, stalls) ==
    \/ OrchestratorStep(id)
    \/ LumaStep(id, stalls)
    \/ ReplicateStep(id, stalls)
    \/ HuggingFaceStep(id)
    \/ MockStep(id)

\* The service with up to MaxGenerations generations in flight at once; a
\* provider attempt gets at most MaxStalls non-final poll answers.
Next ==
    \/ Request(Prompts, MaxGenerations)
    \/ Tick
    \/ \E id \in TaskIds : TaskStep(id, MaxStalls)

Spec == Init /\ [][Next]_vars

\* One generation, with the providers free to answer every poll as they like,
\* so that a poll budget can run out.
NextChain ==
    \/ Request(Prompts, 1)
    \/ Tick
    \/ \E id \in TaskIds : TaskStep(id, LumaPolls + ReplicatePolls)

SpecChain == Init /\ [][NextChain]_vars

\* SpecChain with the scheduling the code relies on: the event loop runs every
\* task that is ready, and every network call and every sleep returns.
SpecChainFair ==
    /\ SpecChain
    /\ \A id \in TaskIds : WF_vars(TaskStep(id, LumaPolls + ReplicatePolls))

\* No credential configured: only the orchestrator and the mock can run.
InitNoKeys == Init /\ keys = {}

NoKeysTaskStep(id) == OrchestratorStep(id) \/ MockStep(id)

NextNoKeys ==
    \/ Request(NoKeysPrompts, MaxGenerations)
    \/ Tick
    \/ \E id \in TaskIds : NoKeysTaskStep(id)

\* The event loop runs every task that is ready, and asyncio.sleep returns.
SpecNoKeys ==
    /\ InitNoKeys
    /\ [][NextNoKeys]_vars
    /\ \A id \in TaskIds : WF_vars(NoKeysTaskStep(id))

\* The mock alone: one generation, no credential, the prompt drawn from
\* MockPrompts.
NextMock ==
    \/ /\ issued = {}
       /\ \E prompt \in MockPrompts : generate_video(prompt, DefaultDuration)
    \/ \E id \in TaskIds : NoKeysTaskStep(id)

SpecMock == InitNoKeys /\ [][NextMock]_vars

----------------------------------------------------------------------------
(* Properties *)

Records == DOMAIN generation_status
RecordsAfter == DOMAIN generation_status'

\* C1: the progress of a generation never decreases from one state to the
\* next while its record is not terminal, whatever the configured providers
\* answer.
C1_ProgressNeverDecreases ==
    [][\A id \in Records \cap RecordsAfter :
          (~Terminal(generation_status[id]) /\ ~Terminal(generation_status'[id]))
              => generation_status'[id].progress >= generation_status[id].progress]_vars

\* C2: a record is created queued with progress 0; its status changes only
\* queued -> processing (with progress 10), processing -> completed or
\* processing -> failed; a completed or failed record keeps its status.
C2_StatusTransitions ==
    [][/\ \A id \in RecordsAfter \ Records :
            /\ generation_status'[id].status = "queued"
            /\ generation_status'[id].progress = 0
       /\ \A id \in Records \cap RecordsAfter :
            LET was == generation_status[id].status
                is == generation_status'[id].status
            IN  was # is =>
                  /\ <<was, is>> \in {<<"queued", "processing">>,
                                      <<"processing", "completed">>,
                                      <<"processing", "failed">>}
                  /\ is = "processing" => generation_status'[id].progress = 10]_vars

\* C2 witness: a record that went through queued and processing is completed
\* with a provider's URL while another record is still processing.
C2_Witness ==
    \E id \in Records, other \in Records :
        /\ generation_status[id].status = "completed"
        /\ generation_status[id].video_url \in LumaUrls \cup ReplicateUrls
        /\ generation_status[other].status = "processing"

\* The URL the keyword rule gives each prompt of NoKeysPrompts
NoKeysExpectedUrl(prompt) ==
    IF prompt = <<"S", "e", "a">> THEN OceanUrl ELSE DefaultUrl

\* C3: with no credential configured, no task ever enters a provider adapter,
\* no record is ever failed, a completed record has progress 100 and the URL
\* the keyword rule gives its prompt, and every record that is queued or
\* processing is eventually completed.
C3_NoKeysCompletes ==
    /\ [](\A id \in DOMAIN tasks : tasks[id].stage \in {"pending", "mock", "done"})
    /\ [](\A id \in Records :
            /\ generation_status[id].status # "failed"
            /\ generation_status[id].status = "completed" =>
                 /\ generation_status[id].progress = 100
                 /\ generation_status[id].video_url =
                        NoKeysExpectedUrl(generation_status[id].prompt))
    /\ \A id \in TaskIds :
          (id \in Records /\ IsActive(generation_status[id]))
              ~> (id \in Records /\ generation_status[id].status = "completed")

\* C3 witness: with no credential, two generations are completed, one of them
\* with the ocean URL for the prompt "Sea".
C3_Witness ==
    /\ keys = {}
    /\ \E id \in Records, other \in Records :
        /\ other # id
        /\ generation_status[id].status = "completed"
        /\ generation_status[id].prompt = <<"S", "e", "a">>
        /\ generation_status[id].video_url = OceanUrl
        /\ generation_status[other].status = "completed"

\* C4: generate_video returns an id no earlier call returned and creates
\* exactly the record of that id, queued, leaving every other record as it
\* was; every id issued and not removed by a cleanup has a record, and a
\* status read of it answers 200 with one of the four statuses.
C4_FreshIdReadable ==
    [][/\ issued' # issued =>
            /\ response'.op = "generate"
            /\ response'.code = 200
            /\ response'.generation_id \notin issued
            /\ response'.generation_id \notin Records
            /\ issued' = issued \cup {response'.generation_id}
            /\ RecordsAfter = Records \cup {response'.generation_id}
            /\ generation_status'[response'.generation_id].status = "queued"
            /\ \A id \in Records : generation_status'[id] = generation_status[id]
       /\ (response'.op = "generate" /\ response'.code = 200) => issued' # issued
       /\ \A id \in issued' \ reaped' : id \in RecordsAfter
       /\ (response'.op = "status" /\ response'.generation_id \in issued' \ reaped') =>
            /\ response'.code = 200
            /\ response'.status \in {"queued", "processing", "completed", "failed"}]_vars

\* C4 witness: the second id issued is read right after its acceptance, or
\* later, while the first record exists too.
C4_Witness ==
    /\ response.op = "status"
    /\ response.generation_id = 2
    /\ response.code = 200
    /\ response.status = "queued"
    /\ 1 \in Records

\* The prompt is empty or holds only whitespace
Blank(prompt) == \A i \in 1..Len(prompt) : prompt[i] \in Whitespace

\* C5: a generate_video request with an empty or whitespace-only prompt is
\* answered with a 4xx code and changes neither the store nor the tasks.
C5_BlankPromptRejected ==
    [][(response'.op = "generate" /\ Blank(response'.request_prompt)) =>
            /\ response'.code \in 400..499
            /\ generation_status' = generation_status
            /\ tasks' = tasks
            /\ issued' = issued]_vars

\* C5 witness: a whitespace-only prompt was rejected with 400 while the store
\* holds a record.
C5_Witness ==
    /\ response.op = "generate"
    /\ response.request_prompt = <<" ", "\t">>
    /\ response.code = 400
    /\ Records # {}

\* C6: a status read of an id generate_video has not returned answers 404 and
\* changes neither the store nor the tasks.
C6_UnknownIdNotFound ==
    [][(response'.op = "status" /\ response'.generation_id \notin issued') =>
            /\ response'.code = 404
            /\ generation_status' = generation_status
            /\ tasks' = tasks]_vars

\* C6 witness: 404 for an id never issued, while the store holds a record and
\* a cleanup has removed another.
C6_Witness ==
    /\ response.op = "status"
    /\ response.generation_id \notin issued
    /\ response.code = 404
    /\ Records # {}
    /\ reaped # {}

\* C7: a cleanup removes exactly the records created more than CutoffAge
\* before it and leaves the others as they were; it reports the number removed
\* and the number left; a cleanup right after a cleanup removes none.
C7_CleanupExact ==
    [][response'.op = "cleanup" =>
            LET old == {id \in Records : now - generation_status[id].created_at > CutoffAge}
            IN  /\ RecordsAfter = Records \ old
                /\ \A id \in RecordsAfter : generation_status'[id] = generation_status[id]
                /\ response'.cleaned = Cardinality(old)
                /\ response'.remaining = Cardinality(RecordsAfter)
                /\ response.op = "cleanup" => response'.cleaned = 0]_vars

\* C7 witness: a cleanup removed one record and kept one that is exactly
\* CutoffAge old.
C7_Witness ==
    /\ response.op = "cleanup"
    /\ response.cleaned = 1
    /\ response.remaining = 1
    /\ \E id \in Records : now - generation_status[id].created_at = CutoffAge

\* C8: two accepted generations have different ids, and a record changes only
\* in a step of the task of its own id, a step in which no other task moves.
C8_OwnRecordOnly ==
    [][/\ issued' # issued => Cardinality(issued') = Cardinality(issued) + 1
       /\ \A id \in Records \cap RecordsAfter :
            generation_status'[id] # generation_status[id] =>
                /\ tasks'[id] # tasks[id]
                /\ \A other \in DOMAIN tasks \ {id} : tasks'[other] = tasks[other]]_vars

\* C8 witness: two tasks are inside different adapters, their records both
\* processing with different progress.
C8_Witness ==
    \E id \in Records, other \in Records :
        /\ tasks[id].stage = "luma"
        /\ tasks[other].stage = "replicate"
        /\ generation_status[id].status = "processing"
        /\ generation_status[other].status = "processing"
        /\ generation_status[id].progress # generation_status[other].progress

\* word occurs in prompt, the letters A-Z of the prompt in either case
InAnyCase(prompt, word) ==
    \E i \in 0..(Len(prompt) - Len(word)) :
        \A k \in 1..Len(word) : lowerChar(prompt[i + k]) = word[k]

AnyInAnyCase(prompt, words) == \E word \in words : InAnyCase(prompt, word)

\* The letters a-z of the prompt turned into capitals, every other character kept
AsciiUpper(prompt) ==
    [i \in 1..Len(prompt) |->
        IF prompt[i] = LongS THEN prompt[i] ELSE upperChar(prompt[i])]

\* C9 as stated: "cat" in the prompt gives the cat URL, "ocean" the ocean URL,
\* "forest" the nature URL, "city" the city URL, no keyword the default URL,
\* and the prompt in capitals or in small letters gives the same URL.
C9_KeywordGivesCategory ==
    \A id \in Records :
        generation_status[id].status = "completed" =>
            LET prompt == generation_status[id].prompt
                url == generation_status[id].video_url
            IN  /\ Contains(prompt, <<"c", "a", "t">>) => url = CatUrl
                /\ Contains(prompt, <<"o", "c", "e", "a", "n">>) => url = OceanUrl
                /\ Contains(prompt, <<"f", "o", "r", "e", "s", "t">>) => url = NatureUrl
                /\ Contains(prompt, <<"c", "i", "t", "y">>) => url = CityUrl
                /\ ~AnyInAnyCase(prompt, CatWords \cup OceanWords \cup NatureWords \cup CityWords)
                     => url = DefaultUrl
                /\ MockVideoUrl(upper(prompt)) = url
                /\ MockVideoUrl(lower(prompt)) = url

\* C9 amended: "cat" in any case gives the cat URL; "ocean" gives the ocean
\* URL when no cat keyword occurs; "forest" the nature URL when no cat or ocean
\* keyword occurs; "city" the city URL when no cat, ocean or nature keyword
\* occurs; no keyword the default URL; and turning the letters a-z, A-Z of the
\* prompt into capitals or small letters gives the same URL.
C9_KeywordGivesCategoryInOrder ==
    \A id \in Records :
        generation_status[id].status = "completed" =>
            LET prompt == generation_status[id].prompt
                url == generation_status[id].video_url
                cat == AnyInAnyCase(prompt, CatWords)
                ocean == AnyInAnyCase(prompt, OceanWords)
                nature == AnyInAnyCase(prompt, NatureWords)
                city == AnyInAnyCase(prompt, CityWords)
            IN  /\ InAnyCase(prompt, <<"c", "a", "t">>) => url = CatUrl
                /\ (InAnyCase(prompt, <<"o", "c", "e", "a", "n">>) /\ ~cat)
                     => url = OceanUrl
                /\ (InAnyCase(prompt, <<"f", "o", "r", "e", "s", "t">>) /\ ~cat /\ ~ocean)
                     => url = NatureUrl
                /\ (InAnyCase(prompt, <<"c", "i", "t", "y">>) /\ ~cat /\ ~ocean /\ ~nature)
                     => url = CityUrl
                /\ (~cat /\ ~ocean /\ ~nature /\ ~city) => url = DefaultUrl
                /\ MockVideoUrl(AsciiUpper(prompt)) = url
                /\ MockVideoUrl(lower(prompt)) = url

\* C9 witness: a prompt holding "OCEAN" in capitals and "city" is completed
\* with the ocean URL.
C9_Witness ==
    \E id \in Records :
        /\ generation_status[id].status = "completed"
        /\ Contains(generation_status[id].prompt, <<"O", "C", "E", "A", "N">>)
        /\ Contains(generation_status[id].prompt, <<"c", "i", "t", "y">>)
        /\ generation_status[id].video_url = OceanUrl

\* C10: a health check changes no record and reports the number of records
\* that are neither completed nor failed.
C10_ActiveCount ==
    [][response'.op = "health" =>
            /\ generation_status' = generation_status
            /\ response'.active_generations =
                   Cardinality(RecordsAfter)
                   - Cardinality({id \in RecordsAfter : Terminal(generation_status'[id])})]_vars

\* C10 witness: a health check reports 1 while the store holds a completed
\* record and a processing one.
C10_Witness ==
    /\ response.op = "health"
    /\ response.active_generations = 1
    /\ \E id \in Records, other \in Records :
        /\ generation_status[id].status = "completed"
        /\ generation_status[other].status = "processing"

\* The fields of a record that a status read returns, as the read returns them
StatusFields(code, rec) ==
    [code |-> code, status |-> rec.status, video_url |-> rec.video_url,
     error |-> rec.error]

StatusFieldsOf(resp) ==
    IF resp.code = 200
    THEN [code |-> resp.code, status |-> resp.status, video_url |-> resp.video_url,
          error |-> resp.error]
    ELSE [code |-> resp.code]

\* C11 as stated: a completed or failed record stays in the store with the
\* same status, video URL and error through every later step, cleanups
\* included, and every status read of it answers 200 with these fields.
C11_TerminalReadsStable ==
    [][\A id \in Records :
          Terminal(generation_status[id]) =>
              /\ id \in RecordsAfter
              /\ generation_status'[id] = generation_status[id]
              /\ (response'.op = "status" /\ response'.generation_id = id) =>
                    StatusFieldsOf(response') = StatusFields(200, generation_status[id])]_vars

\* C11 amended: a completed or failed record is changed by no step; only a
\* cleanup removes it, and only when it was created more than CutoffAge
\* before; while it is in the store every status read of it answers 200 with
\* its status, video URL and error; once removed it never returns and every
\* status read of it answers 404.
C11_TerminalReadsStableUntilReaped ==
    [][/\ \A id \in Records :
            Terminal(generation_status[id]) =>
                /\ id \in RecordsAfter => generation_status'[id] = generation_status[id]
                /\ id \notin RecordsAfter =>
                      /\ response'.op = "cleanup"
                      /\ now - generation_status[id].created_at > CutoffAge
                /\ (response'.op = "status" /\ response'.generation_id = id) =>
                      StatusFieldsOf(response') = StatusFields(200, generation_status[id])
       /\ \A id \in reaped : id \notin RecordsAfter
       /\ (response'.op = "status" /\ response'.generation_id \in reaped') =>
              response'.code = 404]_vars

\* C11 witness: a status read answers completed for a record that is exactly
\* CutoffAge old, after a cleanup that removed the other record.
C11_Witness ==
    /\ response.op = "status"
    /\ response.code = 200
    /\ response.status = "completed"
    /\ reaped # {}
    /\ now - generation_status[response.generation_id].created_at = CutoffAge

\* The place of a stage in the chain of main.py:141-158
Rank(stage) ==
    CASE stage = "pending" -> 0
      [] stage = "luma" -> 1
      [] stage = "replicate" -> 2
      [] stage = "huggingface" -> 3
      [] stage = "mock" -> 4
      [] OTHER -> 5

\* The configured providers that come after stage in the chain
LaterConfigured(stage) == {p \in keys : Rank(p) > Rank(stage)}

\* The first configured provider after stage, the mock when there is none
Fallback(stage) ==
    IF LaterConfigured(stage) = {} THEN "mock"
    ELSE CHOOSE p \in LaterConfigured(stage) :
             \A q \in LaterConfigured(stage) : Rank(p) <= Rank(q)

\* C12: a task is only ever inside the adapter of a configured provider or the
\* mock; it moves forward through the chain luma, replicate, huggingface, mock
\* and never back, so no adapter runs twice; it leaves a provider's adapter
\* only when that adapter has returned; when the adapter returned a URL the
\* task goes to its end and enters no further adapter; when it returned none,
\* and at dispatch, the task enters the first configured provider further down
\* the chain, or the mock when none is left.
C12_AdaptersInOrder ==
    [][\A id \in DOMAIN tasks :
          LET was == tasks[id].stage
              is == tasks'[id].stage
              video_url == tasks[id].ret
          IN  /\ is \in Providers => is \in keys
              /\ was # is =>
                    /\ Rank(was) < Rank(is)
                    /\ was \in Providers => tasks[id].pc \in {"enter", "close"}
                    /\ Truthy(video_url) => is \in {"done", "crashed"}
                    /\ (~Truthy(video_url) /\ was # "mock" /\ id \in Records) =>
                          is = Fallback(was)
                    /\ is = "mock" => ~Truthy(video_url)]_vars

\* C12 witness: with the three credentials set, one task has reached the mock
\* after every provider returned none, and another has ended with the URL
\* that Replicate returned.
C12_Witness ==
    /\ keys = Providers
    /\ \E id \in DOMAIN tasks, other \in DOMAIN tasks :
        /\ tasks[id].stage = "mock"
        /\ tasks[other].stage = "done"
        /\ tasks[other].ret \in ReplicateUrls

\* The configured providers that come before stage in the chain: a task at
\* stage has had each of them return no URL
EarlierConfigured(stage) == {p \in keys : Rank(p) < Rank(stage)}

\* C13: no record is ever failed or carries an error; when a provider's
\* adapter ends without a URL (the call raised, the submission was refused,
\* the provider reported failure, the poll budget ran out) the record stays
\* processing and the task goes on to a later adapter; and a task in whose
\* chain a provider returned no URL ends with its record completed.
C13_ProviderFailureFallsThrough ==
    [][\A id \in DOMAIN tasks :
          LET was == tasks[id].stage
              is == tasks'[id].stage
          IN  /\ id \in RecordsAfter =>
                    /\ generation_status'[id].status # "failed"
                    /\ generation_status'[id].error = None
              /\ (was \in Providers /\ ~Truthy(tasks'[id].ret) /\ id \in RecordsAfter
                    /\ is \notin {"done", "crashed"}) =>
                    generation_status'[id].status = "processing"
              /\ (was \in Providers /\ was # is /\ ~Truthy(tasks[id].ret)) =>
                    is \in Providers \cup {"mock"}
              /\ (was # is /\ is \in {"done", "crashed"} /\ EarlierConfigured(was) # {}) =>
                    /\ is = "done"
                    /\ id \in RecordsAfter
                    /\ generation_status'[id].status = "completed"]_vars

\* The task of id ends in this step
Ends(id) ==
    /\ tasks[id].stage \notin {"done", "crashed"}
    /\ tasks'[id].stage \in {"done", "crashed"}

\* C14: when a task ends otherwise than by writing completed, an exception
\* has reached the handler of main.py:168; then the record is in the store,
\* failed, with progress 0 and an error, the handler itself has not raised,
\* and every other record is as it was.
C14_EscapedExceptionFails ==
    [][\A id \in DOMAIN tasks :
          (Ends(id) /\ ~(id \in RecordsAfter /\ generation_status'[id].status = "completed")) =>
              /\ tasks'[id].stage = "done"
              /\ id \in RecordsAfter
              /\ generation_status'[id].status = "failed"
              /\ generation_status'[id].progress = 0
              /\ generation_status'[id].error # None
              /\ \A other \in Records \ {id} :
                    /\ other \in RecordsAfter
                    /\ generation_status'[other] = generation_status[other]]_vars

\* C15: in every state every record has a progress in 0..100, a video URL
\* exactly when it is completed, an error exactly when it is failed, and, when
\* completed, progress 100 and a completion timestamp.
C15_RecordWellFormed ==
    \A id \in Records :
        LET rec == generation_status[id] IN
        /\ rec.progress \in 0..100
        /\ rec.status \in {"queued", "processing", "completed", "failed"}
        /\ Truthy(rec.video_url) <=> rec.status = "completed"
        /\ rec.video_url # None <=> rec.status = "completed"
        /\ rec.error # None <=> rec.status = "failed"
        /\ rec.status = "completed" =>
              /\ rec.progress = 100
              /\ rec.completed_at # <<>>

\* C15 witness: a record completed through Hugging Face, with progress 100
\* and a completion timestamp later than its creation, beside a queued record
\* that has neither URL nor error.
C15_Witness ==
    \E id \in Records, other \in Records :
        /\ generation_status[id].status = "completed"
        /\ generation_status[id].video_url = HuggingFaceUrl
        /\ generation_status[id].progress = 100
        /\ generation_status[id].completed_at = <<CutoffAge>>
        /\ generation_status[id].created_at = 0
        /\ generation_status[other].status = "queued"
        /\ generation_status[other].video_url = None

\* C16: a provider attempt polls at most LumaPolls, ReplicatePolls, or (for
\* Hugging Face) no times, and every generation whose record is queued or
\* processing eventually has a completed or failed record, whatever the
\* providers answer.
C16_EveryGenerationEnds ==
    /\ [](\A id \in DOMAIN tasks :
            /\ tasks[id].stage = "luma" => tasks[id].polls < LumaPolls
            /\ tasks[id].stage = "replicate" => tasks[id].polls < ReplicatePolls
            /\ tasks[id].stage \in {"huggingface", "mock"} => tasks[id].polls = 0)
    /\ \A id \in TaskIds :
          (id \in Records /\ ~Terminal(generation_status[id]))
              ~> (id \in Records /\ Terminal(generation_status[id]))

\* The categories in their stated order, each with its stated keywords and
\* the URL main.py:387-393 gives it
ClaimedCategories ==
    << [words |-> {<<"c", "a", "t">>, <<"k", "i", "t", "t", "e", "n">>, <<"p", "e", "t">>},
        url |-> CatUrl],
       [words |-> {<<"o", "c", "e", "a", "n">>, <<"w", "a", "v", "e">>,
                   <<"w", "a", "t", "e", "r">>, <<"s", "e", "a">>},
        url |-> OceanUrl],
       [words |-> {<<"n", "a", "t", "u", "r", "e">>, <<"f", "o", "r", "e", "s", "t">>,
                   <<"t", "r", "e", "e">>, <<"l", "a", "n", "d", "s", "c", "a", "p", "e">>},
        url |-> NatureUrl],
       [words |-> {<<"c", "i", "t", "y">>, <<"u", "r", "b", "a", "n">>,
                   <<"b", "u", "i", "l", "d", "i", "n", "g">>,
                   <<"s", "t", "r", "e", "e", "t">>},
        url |-> CityUrl] >>

\* The categories of which a keyword occurs in the prompt, in either case
Matching(prompt) ==
    {i \in DOMAIN ClaimedCategories : AnyInAnyCase(prompt, ClaimedCategories[i].words)}

\* C17: a completed mock generation has the URL of the first category, in the
\* order cat, ocean, nature, city, of which a keyword occurs in the prompt in
\* either letter case, whatever later categories occur too, and the default
\* URL exactly when no keyword of any category occurs.
C17_FirstCategoryWins ==
    \A id \in Records :
        generation_status[id].status = "completed" =>
            LET prompt == generation_status[id].prompt
                url == generation_status[id].video_url
                first == CHOOSE i \in Matching(prompt) : \A j \in Matching(prompt) : i <= j
            IN  /\ Matching(prompt) # {} => url = ClaimedCategories[first].url
                /\ Matching(prompt) = {} <=> url = DefaultUrl

\* C17 witness: a prompt with "urban" and "Tree", keywords of the city and the
\* nature category, is completed with the nature URL.
C17_Witness ==
    \E id \in Records :
        /\ generation_status[id].status = "completed"
        /\ Contains(generation_status[id].prompt, <<"u", "r", "b", "a", "n">>)
        /\ Contains(generation_status[id].prompt, <<"T", "r", "e", "e">>)
        /\ generation_status[id].video_url = NatureUrl

\* C18: an adapter of a provider holds a URL to return only when the provider
\* has reported the job done, and a record completed by a task coming out of a
\* provider's adapter stores the video URL that this provider reported.
C18_ProviderUrlStored ==
    [][\A id \in DOMAIN tasks :
          /\ (tasks'[id].stage \in Providers /\ Truthy(tasks'[id].ret)) =>
                tasks'[id].succeeded
          /\ (Ends(id) /\ tasks[id].stage \in Providers /\ id \in RecordsAfter
                /\ generation_status'[id].status = "completed") =>
                /\ tasks[id].succeeded
                /\ generation_status'[id].video_url = tasks[id].reported]_vars

\* C19: a cleanup removes only records that are completed or failed, so every
\* step of a task finds the task's record in the store, and no task ends in a
\* KeyError.
C19_NoWriteAfterReap ==
    [][/\ \A id \in Records \ RecordsAfter : Terminal(generation_status[id])
       /\ \A id \in DOMAIN tasks :
            /\ tasks'[id] # tasks[id] => id \in Records
            /\ tasks'[id].stage # "crashed"]_vars

\* The stages in which a task is inside an adapter
Adapters == Providers \cup {"mock"}

\* C20: while a task is inside an adapter its record, if in the store, is
\* processing; a step that leaves the task inside an adapter changes at most
\* the progress of its record; and the status, video URL, error and completion
\* timestamp of a record change only in the step that dispatches its task or
\* in the step that ends it.
C20_AdaptersWriteProgressOnly ==
    [][\A id \in DOMAIN tasks :
          /\ (tasks[id].stage \in Adapters /\ id \in Records) =>
                generation_status[id].status = "processing"
          /\ (tasks[id].stage \in Adapters /\ tasks'[id].stage \in Adapters
                /\ id \in Records /\ id \in RecordsAfter) =>
                generation_status'[id] =
                    [generation_status[id] EXCEPT
                        !.progress = generation_status'[id].progress]
          /\ (id \in Records /\ id \in RecordsAfter
                /\ tasks[id].stage # "pending" /\ ~Ends(id)) =>
                /\ generation_status'[id].status = generation_status[id].status
                /\ generation_status'[id].video_url = generation_status[id].video_url
                /\ generation_status'[id].error = generation_status[id].error
                /\ generation_status'[id].completed_at = generation_status[id].completed_at]_vars

\* C20 witness: a task inside the Hugging Face adapter has brought its record
\* to progress 85 a cutoff period after the record's creation, and the record
\* is processing, with its creation timestamp and without URL or error.
C20_Witness ==
    \E id \in Records :
        /\ tasks[id].stage = "huggingface"
        /\ generation_status[id].progress = 85
        /\ generation_status[id].status = "processing"
        /\ generation_status[id].created_at = 0
        /\ now = CutoffAge
        /\ generation_status[id].video_url = None
        /\ generation_status[id].error = None

====
